---- MODULE Spec2Model ----
(***************************************************************************)
(* A model of ack2vim (src/ack2vim.py): the translation of an ack command  *)
(* line into mvim command lines.                                           *)
(*                                                                         *)
(* A Python string is a sequence of one-character strings, so that the    *)
(* regular expressions, the quoting and the joins of the program act on   *)
(* characters as they do in the program.                                  *)
(***************************************************************************)
EXTENDS Integers, Sequences, FiniteSets, TLC

VARIABLES
    pc,         \* where main stands
    rawArgs,    \* sys.argv[1:], main's argument
    args,       \* main's local args (after parse_command_line)
    run_vim,    \* main's local run_vim
    command,    \* the command line handed to commands.getstatusoutput
    ackStatus,  \* the status getstatusoutput returned
    ackOutput,  \* the output getstatusoutput returned
    paths,      \* main's local paths_to_files
    vim_args,   \* main's local args after as_vim_args
    stdout,     \* the characters written to sys.stdout
    stderr,     \* the characters written to sys.stderr
    ret,        \* main's return value
    exc,        \* the exception that left main, or "none"
    fname,      \* the function a function-level specification applies
    fin,        \* its string argument
    fchar,      \* its character argument (remove_option)
    fout        \* the results of its successive applications

vars == <<pc, rawArgs, args, run_vim, command, ackStatus, ackOutput, paths,
          vim_args, stdout, stderr, ret, exc, fname, fin, fchar, fout>>

mainVars == <<pc, rawArgs, args, run_vim, command, ackStatus, ackOutput, paths,
              vim_args, stdout, stderr, ret, exc>>

funVars == <<fname, fin, fchar, fout>>

(***************************************************************************)
(* Bounds of the model.                                                    *)
(***************************************************************************)
MaxArgs == 2     \* longest raw argument list
MaxFiles == 2    \* most file paths the search returns
MaxLen == 6      \* longest string a function-level specification draws

(***************************************************************************)
(* Characters and Python's string primitives.                              *)
(***************************************************************************)
BS == "\\"
DQ == "\""
SQ == "'"
NL == "\n"
SP == " "

Lower == {"a","b","c","d","e","f","g","h","i","j","k","l","m",
          "n","o","p","q","r","s","t","u","v","w","x","y","z"}

Upper == {"A","B","C","D","E","F","G","H","I","J","K","L","M",
          "N","O","P","Q","R","S","T","U","V","W","X","Y","Z"}

Digit == {"0","1","2","3","4","5","6","7","8","9"}

\* the class \w of re (and \W, its complement)
IsWord(c) == c \in Lower \cup Upper \cup Digit \cup {"_"}

Chars(s) == {s[i] : i \in 1..Len(s)}

\* s[i:j] in Python's terms, for 1-based i and inclusive j
Slice(s, i, j) == IF i > j THEN <<>> ELSE SubSeq(s, i, j)

\* s[:2] and s[-2:]
First2(s) == Slice(s, 1, IF Len(s) < 2 THEN Len(s) ELSE 2)
Last2(s) == Slice(s, IF Len(s) < 2 THEN 1 ELSE Len(s) - 1, Len(s))

\* whether t stands in s at position i
At(s, i, t) == i >= 1 /\ i + Len(t) - 1 <= Len(s) /\ Slice(s, i, i + Len(t) - 1) = t

\* t in s
Contains(s, t) == \E i \in 1..Len(s) : At(s, i, t)

\* where $ matches: at the end, or before a newline that ends the string
DollarAt(s, k) == k = Len(s) + 1 \/ (k = Len(s) /\ s[k] = NL)

RECURSIVE Join(_, _)
\* sep.join(items)
Join(items, sep) ==
    IF items = <<>> THEN <<>>
    ELSE IF Len(items) = 1 THEN items[1]
    ELSE items[1] \o sep \o Join(Tail(items), sep)

RECURSIVE SplitFrom(_, _, _)
SplitFrom(s, i, cur) ==
    IF i > Len(s) THEN (IF cur = <<>> THEN <<>> ELSE <<cur>>)
    ELSE IF s[i] = NL THEN <<cur>> \o SplitFrom(s, i + 1, <<>>)
    ELSE SplitFrom(s, i + 1, Append(cur, s[i]))

\* s.splitlines()
splitlines(s) == SplitFrom(s, 1, <<>>)

RECURSIVE ReplaceFrom(_, _, _, _)
ReplaceFrom(s, i, c, t) ==
    IF i > Len(s) THEN <<>>
    ELSE (IF s[i] = c THEN t ELSE <<s[i]>>) \o ReplaceFrom(s, i + 1, c, t)

\* s.replace(c, t) for a one-character c
Replace(s, c, t) == ReplaceFrom(s, 1, c, t)

(***************************************************************************)
(* join_args, quote_arg, parse_args, join_quoted_args, args_to_strings.    *)
(* A function that may raise returns [exc, val].                           *)
(***************************************************************************)
join_args(as) == Join(as, <<SP>>)

quote_arg(arg) ==
    IF DQ \in Chars(arg)
    THEN IF SQ \in Chars(arg)
         THEN [exc |-> "ValueError", val |-> <<>>]
         ELSE [exc |-> "none", val |-> <<SQ>> \o arg \o <<SQ>>]
    ELSE [exc |-> "none", val |-> <<DQ>> \o arg \o <<DQ>>]

IsOption(arg) == arg[1] = "-"

parse_args(as) ==
    [options |-> SelectSeq(as, IsOption),
     result |-> SelectSeq(as, LAMBDA a : ~IsOption(a))]

join_quoted_args(as) ==
    IF \E i \in 1..Len(as) : quote_arg(as[i]).exc # "none"
    THEN [exc |-> "ValueError", val |-> <<>>]
    ELSE [exc |-> "none",
          val |-> join_args([i \in 1..Len(as) |-> quote_arg(as[i]).val])]

args_to_strings(as) ==
    LET p == parse_args(as)
        q == join_quoted_args(p.result)
    IN [exc |-> q.exc, options |-> join_args(p.options), quoted |-> q.val]

(***************************************************************************)
(* bs_to_brackets.                                                         *)
(***************************************************************************)
StartMarker == <<BS, "<">>
EndMarker == <<BS, ">">>
Boundary == <<BS, "b">>

RECURSIVE SubStartOfWord(_, _)
\* re.sub(r'(^|\W)\\b', r'\<', s), from position i on
SubStartOfWord(s, i) ==
    IF i > Len(s) THEN <<>>
    ELSE IF i = 1 /\ At(s, 1, Boundary)
         THEN StartMarker \o SubStartOfWord(s, 3)
    ELSE IF ~IsWord(s[i]) /\ At(s, i + 1, Boundary)
         THEN StartMarker \o SubStartOfWord(s, i + 3)
    ELSE <<s[i]>> \o SubStartOfWord(s, i + 1)

RECURSIVE SubEndOfWord(_, _)
\* re.sub(r'\\b(\w|$)', r'\>', s), from position i on
SubEndOfWord(s, i) ==
    IF i > Len(s) THEN <<>>
    ELSE IF At(s, i, Boundary) /\ i + 2 <= Len(s) /\ IsWord(s[i + 2])
         THEN EndMarker \o SubEndOfWord(s, i + 3)
    ELSE IF At(s, i, Boundary) /\ DollarAt(s, i + 2)
         THEN EndMarker \o SubEndOfWord(s, i + 2)
    ELSE <<s[i]>> \o SubEndOfWord(s, i + 1)

bs_to_brackets_keep(string) ==
    IF ~Contains(string, Boundary) THEN string
    ELSE SubEndOfWord(string, 1)

bs_to_brackets(string) ==
    IF ~Contains(string, Boundary) THEN string
    ELSE SubEndOfWord(SubStartOfWord(string, 1), 1)

(***************************************************************************)
(* escape_alternates.                                                      *)
(***************************************************************************)
\* the end of re.match(r'\((.*)\)', s): the last ")" that "." reaches after a
\* leading "(" ("." matches no newline)
LastClose(s) ==
    LET closes == {k \in 2..Len(s) :
                      s[k] = ")" /\ \A j \in 2..(k - 1) : s[j] # NL}
    IN IF Len(s) >= 2 /\ s[1] = "(" /\ closes # {}
       THEN CHOOSE k \in closes : \A j \in closes : j <= k
       ELSE 0

escape_alternates(string) ==
    LET k == LastClose(string)
    IN IF k = 0 THEN string
       ELSE <<BS, "(">> \o Replace(Slice(string, 2, k - 1), "|", <<BS, "|">>)
            \o <<BS, ")">>

(***************************************************************************)
(* worded.                                                                 *)
(***************************************************************************)
worded_always(string) == StartMarker \o string \o EndMarker

worded(string) ==
    LET s1 == IF First2(string) # StartMarker THEN StartMarker \o string
              ELSE string
    IN IF Last2(s1) # EndMarker THEN s1 \o EndMarker ELSE s1

(***************************************************************************)
(* remove_option.                                                          *)
(***************************************************************************)
RECURSIVE SubDashFlag(_, _, _)
\* re.sub(r'-%s(\W|$)' % char, '', s), from position i on
SubDashFlag(s, char, i) ==
    IF i > Len(s) THEN <<>>
    ELSE IF At(s, i, <<"-", char>>) /\ i + 2 <= Len(s) /\ ~IsWord(s[i + 2])
         THEN SubDashFlag(s, char, i + 3)
    ELSE IF At(s, i, <<"-", char>>) /\ DollarAt(s, i + 2)
         THEN SubDashFlag(s, char, i + 2)
    ELSE <<s[i]>> \o SubDashFlag(s, char, i + 1)

\* where char may stand in a match of -([a-z]*)char([a-z]*) that starts at i
FlagPositions(s, char, i) ==
    IF i >= 1 /\ i <= Len(s) /\ s[i] = "-"
    THEN {j \in (i + 1)..Len(s) :
            s[j] = char /\ \A k \in (i + 1)..(j - 1) : s[k] \in Lower}
    ELSE {}

Max(S) == CHOOSE m \in S : \A n \in S : n <= m

\* the last position of the run of [a-z] that starts at k (k - 1 when empty)
RunEnd(s, k) ==
    Max({e \in (k - 1)..Len(s) : \A j \in k..e : s[j] \in Lower})

\* re.search(r'-([a-z]*)%s([a-z]*)' % char, s)
SearchBundle(s, char) == \E i \in 1..Len(s) : FlagPositions(s, char, i) # {}

\* re.search(r'--([a-z]*)%s([a-z]*)' % char, s)
SearchDashBundle(s, char) ==
    \E i \in 1..Len(s) : s[i] = "-" /\ FlagPositions(s, char, i + 1) # {}

RECURSIVE SubBundle(_, _, _)
\* re.sub(r'-([a-z]*)%s([a-z]*)' % char, r'-\1\2', s), from position i on
SubBundle(s, char, i) ==
    IF i > Len(s) THEN <<>>
    ELSE IF FlagPositions(s, char, i) # {}
         THEN LET j == Max(FlagPositions(s, char, i))
                  e == RunEnd(s, j + 1)
              IN <<"-">> \o Slice(s, i + 1, j - 1) \o Slice(s, j + 1, e)
                 \o SubBundle(s, char, e + 1)
    ELSE <<s[i]>> \o SubBundle(s, char, i + 1)

remove_option(string, char) ==
    LET r1 == SubDashFlag(string, char, 1)
        r2 == IF SearchBundle(r1, char) /\ ~SearchDashBundle(r1, char)
              THEN SubBundle(r1, char, 1)
              ELSE r1
    IN [string |-> r2, char |-> IF r2 = string THEN "" ELSE char]

(***************************************************************************)
(* as_vim_args and the command builders.                                   *)
(***************************************************************************)
as_vim_args(as) ==
    LET a1 == [i \in 1..Len(as) |-> bs_to_brackets(as[i])]
        a2 == [i \in 1..Len(a1) |-> escape_alternates(a1[i])]
        p == parse_args(a2)
        option_string == join_args(p.options)
        w == "w" \in Chars(option_string)
        a3 == IF w THEN [i \in 1..Len(p.result) |-> worded(p.result[i])]
              ELSE p.result
        q == join_quoted_args(a3)
    IN [exc |-> q.exc,
        options |-> IF w THEN remove_option(option_string, "w").string
                    ELSE option_string,
        val |-> q.val]

\* 'mvim %s +/%s' % (path_to_file, vim_args)
as_vim_command(vargs, path_to_file) ==
    <<"m","v","i","m",SP>> \o path_to_file \o <<SP,"+","/">> \o vargs

QuoteAll(ps) ==
    IF \E i \in 1..Len(ps) : quote_arg(ps[i]).exc # "none"
    THEN [exc |-> "ValueError", val |-> <<>>]
    ELSE [exc |-> "none", val |-> [i \in 1..Len(ps) |-> quote_arg(ps[i]).val]]

as_vim_commands(vargs, paths_to_files) ==
    LET q == QuoteAll(paths_to_files)
    IN [exc |-> q.exc,
        val |-> [i \in 1..Len(q.val) |-> as_vim_command(vargs, q.val[i])]]

as_a_vim_command(vargs, paths_to_files) ==
    LET q == QuoteAll(paths_to_files)
    IN [exc |-> q.exc,
        val |-> as_vim_command(vargs, Join(<< <<"-","p">> >> \o q.val, <<SP>>))]

run_vim_option_swapped == "V"

run_vim_option == "v"

verbose_option == "V"

EX_OK == 0
EX_TEMPFAIL == 75

\* what a print statement writes
Printed(string) == string \o <<NL>>

RECURSIVE PrintEach(_, _)
\* a use_files that prints each command as soon as it is built
PrintEach(vargs, paths_to_files) ==
    IF paths_to_files = <<>> THEN [exc |-> "none", out |-> <<>>]
    ELSE LET q == quote_arg(paths_to_files[1])
             rest == PrintEach(vargs, Tail(paths_to_files))
         IN IF q.exc # "none" THEN [exc |-> q.exc, out |-> <<>>]
            ELSE [exc |-> rest.exc,
                  out |-> Printed(as_vim_command(vargs, q.val)) \o rest.out]

use_files_streaming(runvim, vargs, paths_to_files) ==
    IF runvim
    THEN LET c == as_a_vim_command(vargs, paths_to_files)
         IN IF c.exc # "none" THEN [exc |-> c.exc, out |-> <<>>, ret |-> 0]
            ELSE [exc |-> "none", out |-> Printed(c.val), ret |-> EX_OK]
    ELSE LET c == PrintEach(vargs, paths_to_files)
         IN [exc |-> c.exc, out |-> c.out, ret |-> EX_TEMPFAIL]

use_files_swapped(runvim, vargs, paths_to_files) ==
    IF ~runvim
    THEN LET c == as_a_vim_command(vargs, paths_to_files)
         IN IF c.exc # "none" THEN [exc |-> c.exc, out |-> <<>>, ret |-> 0]
            ELSE [exc |-> "none", out |-> Printed(c.val), ret |-> EX_OK]
    ELSE LET c == as_vim_commands(vargs, paths_to_files)
         IN IF c.exc # "none" THEN [exc |-> c.exc, out |-> <<>>, ret |-> 0]
            ELSE [exc |-> "none", out |-> Printed(Join(c.val, <<NL>>)),
                  ret |-> EX_TEMPFAIL]

\* [exc, out, ret]: the exception raised, or the characters printed and the
\* value returned
use_files(runvim, vargs, paths_to_files) ==
    IF runvim
    THEN LET c == as_a_vim_command(vargs, paths_to_files)
         IN IF c.exc # "none" THEN [exc |-> c.exc, out |-> <<>>, ret |-> 0]
            ELSE [exc |-> "none", out |-> Printed(c.val), ret |-> EX_OK]
    ELSE LET c == as_vim_commands(vargs, paths_to_files)
         IN IF c.exc # "none" THEN [exc |-> c.exc, out |-> <<>>, ret |-> 0]
            ELSE [exc |-> "none", out |-> Printed(Join(c.val, <<NL>>)),
                  ret |-> EX_TEMPFAIL]

(***************************************************************************)
(* parse_command_line.                                                     *)
(***************************************************************************)
RECURSIVE ParseLoop(_, _, _, _)
\* the for loop, from argument i on, with the locals result and any_run_vim
ParseLoop(as, i, result, any_run_vim) ==
    IF i > Len(as)
    THEN [exc |-> "none", args |-> result, run_vim |-> any_run_vim]
    ELSE LET arg == as[i]
         IN IF arg = <<>>
            THEN [exc |-> "IndexError", args |-> <<>>, run_vim |-> FALSE]
            ELSE IF arg[Len(arg)] = "/"
            THEN ParseLoop(as, i + 1, result, any_run_vim)
            ELSE LET r1 == remove_option(arg, verbose_option)
                 IN IF r1.string = <<>>
                    THEN ParseLoop(as, i + 1, result, any_run_vim)
                    ELSE LET r2 == remove_option(r1.string, run_vim_option)
                             any == any_run_vim \/ r2.char = run_vim_option
                         IN ParseLoop(as, i + 1,
                                      IF r2.string # <<>>
                                      THEN Append(result, r2.string)
                                      ELSE result,
                                      any)

parse_command_line(as) == ParseLoop(as, 1, <<>>, FALSE)

(***************************************************************************)
(* run_ack. The search collaborator (commands.getstatusoutput) answers    *)
(* with a status and an output of its own choice.                          *)
(***************************************************************************)
AckPrefix ==
    <<"a","c","k",SP,"-","-","f","i","l","e","s","-","w","i","t","h","-",
      "m","a","t","c","h","e","s",SP,"-","-","n","o","c","o","l","o","r",SP>>

\* 'ack --files-with-matches --nocolor %s %s' % args_to_strings(args)
ack_command(as) ==
    LET c == args_to_strings(as)
    IN [exc |-> c.exc, val |-> AckPrefix \o c.options \o <<SP>> \o c.quoted]

run_ack_unchecked(status, output) ==
    [exc |-> "none", paths |-> splitlines(output)]

\* the part of run_ack after getstatusoutput has answered
run_ack(status, output) ==
    IF status # 0
    THEN [exc |-> "ShellError", paths |-> <<>>]
    ELSE [exc |-> "none", paths |-> splitlines(output)]

(***************************************************************************)
(* The inputs the model draws from.                                        *)
(***************************************************************************)
SeqsUpTo(S, n) == UNION {[1..k -> S] : k \in 0..n}

RawTokens ==
    { <<"-","v">>, <<"-","V">>, <<"-","w">>, <<"-","v","V">>,
      <<"f","o","o">>, <<"f","o","o","-","v">>,
      <<"r","e","-","e","v","a","l">>,
      <<"d","/">>,
      <<"a",DQ,SQ>>,
      <<BS,"b","f",BS,"b">>,
      <<"(","a","|","b",")">>,
      <<>> }

FilePaths ==
    { <<"a",".","t","x","t">>, <<"b","/","c",".","t","x","t">>,
      <<"d",DQ>>, <<"q",DQ,SQ>> }

ErrorOutput == <<"a","c","k",":",SP,"n","o",SP,"s","u","c","h",SP,
                 "o","p","t","i","o","n">>

\* a status of wait(): 512 is the exit code 2
FailStatuses == {1, 2, 512}

\* what the search collaborator may answer: the matched paths, one per line,
\* with status 0, or a message with a status that is not 0
Responses ==
    {[status |-> 0, output |-> Join(ps, <<NL>>)] : ps \in SeqsUpTo(FilePaths, MaxFiles)}
    \cup {[status |-> st, output |-> ErrorOutput] : st \in FailStatuses}

(***************************************************************************)
(* main, one step per call it makes.                                       *)
(***************************************************************************)
MainIdle ==
    /\ args = <<>> /\ run_vim = FALSE /\ command = <<>>
    /\ ackStatus = 0 /\ ackOutput = <<>> /\ paths = <<>> /\ vim_args = <<>>
    /\ stdout = <<>> /\ stderr = <<>> /\ ret = 0 /\ exc = "none"

FunIdle == fname = "none" /\ fin = <<>> /\ fchar = "" /\ fout = <<>>

Init ==
    /\ pc = "ParseCommandLine"
    /\ rawArgs \in SeqsUpTo(RawTokens, MaxArgs)
    /\ MainIdle
    /\ FunIdle

\* an exception that main does not catch leaves it
Propagate(e) ==
    /\ pc' = "Done"
    /\ exc' = e

\* line 198
ParseCommandLine ==
    /\ pc = "ParseCommandLine"
    /\ LET r == parse_command_line(rawArgs)
       IN IF r.exc # "none"
          THEN /\ Propagate(r.exc)
               /\ UNCHANGED <<args, run_vim>>
          ELSE /\ args' = r.args
               /\ run_vim' = r.run_vim
               /\ pc' = "InvokeSearch"
               /\ UNCHANGED exc
    /\ UNCHANGED <<rawArgs, command, ackStatus, ackOutput, paths, vim_args,
                   stdout, stderr, ret>>
    /\ UNCHANGED funVars

\* line 200
InvokeSearch ==
    /\ pc = "InvokeSearch"
    /\ LET c == ack_command(args)
       IN IF c.exc # "none"
          THEN /\ Propagate(c.exc)
               /\ UNCHANGED <<command, ackStatus, ackOutput, paths>>
          ELSE \E resp \in Responses :
                  LET r == run_ack(resp.status, resp.output)
                  IN /\ command' = c.val
                     /\ ackStatus' = resp.status
                     /\ ackOutput' = resp.output
                     /\ paths' = r.paths
                     /\ pc' = IF r.exc = "ShellError" THEN "ShellError"
                              ELSE "TranslatePatterns"
                     /\ UNCHANGED exc
    /\ UNCHANGED <<rawArgs, args, run_vim, vim_args, stdout, stderr, ret>>
    /\ UNCHANGED funVars

\* lines 203 to 205
HandleShellError ==
    /\ pc = "ShellError"
    /\ stderr' = stderr \o Printed(ackOutput)
    /\ ret' = ackStatus
    /\ pc' = "Done"
    /\ UNCHANGED <<rawArgs, args, run_vim, command, ackStatus, ackOutput,
                   paths, vim_args, stdout, exc>>
    /\ UNCHANGED funVars

\* line 201
TranslatePatterns ==
    /\ pc = "TranslatePatterns"
    /\ LET r == as_vim_args(args)
       IN IF r.exc # "none"
          THEN /\ Propagate(r.exc)
               /\ UNCHANGED vim_args
          ELSE /\ vim_args' = r.val
               /\ pc' = "UseFiles"
               /\ UNCHANGED exc
    /\ UNCHANGED <<rawArgs, args, run_vim, command, ackStatus, ackOutput,
                   paths, stdout, stderr, ret>>
    /\ UNCHANGED funVars

\* line 202
UseFiles ==
    /\ pc = "UseFiles"
    /\ LET r == use_files(run_vim, vim_args, paths)
       IN /\ stdout' = stdout \o r.out
          /\ IF r.exc # "none"
             THEN /\ Propagate(r.exc)
                  /\ UNCHANGED ret
             ELSE /\ ret' = r.ret
                  /\ pc' = "Done"
                  /\ UNCHANGED exc
    /\ UNCHANGED <<rawArgs, args, run_vim, command, ackStatus, ackOutput,
                   paths, vim_args, stderr>>
    /\ UNCHANGED funVars

Next ==
    \/ ParseCommandLine
    \/ InvokeSearch
    \/ HandleShellError
    \/ TranslatePatterns
    \/ UseFiles

Spec == Init /\ [][Next]_vars

(***************************************************************************)
(* The functions on their own: each specification draws an argument and   *)
(* applies one function to it.                                             *)
(***************************************************************************)
FunInit(name, alphabet, chars) ==
    /\ pc = "Function"
    /\ rawArgs = <<>>
    /\ MainIdle
    /\ fname = name
    /\ fin \in SeqsUpTo(alphabet, MaxLen)
    /\ fchar \in chars
    /\ fout = <<>>

\* the argument of the next application: the last result, or the input
FunArg == IF fout = <<>> THEN fin ELSE fout[Len(fout)]

BsAlphabet == {BS, "b", "a", "."}

ApplyBsToBrackets ==
    /\ fname = "bs_to_brackets"
    /\ fout = <<>>
    /\ fout' = <<bs_to_brackets(fin)>>
    /\ UNCHANGED <<fname, fin, fchar>>
    /\ UNCHANGED mainVars

InitBs == FunInit("bs_to_brackets", BsAlphabet, {""})

NextBs == ApplyBsToBrackets

SpecBs == InitBs /\ [][NextBs]_vars

AltAlphabet == {"(", ")", "|", "a"}

ApplyEscapeAlternates ==
    /\ fname = "escape_alternates"
    /\ fout = <<>>
    /\ fout' = <<escape_alternates(fin)>>
    /\ UNCHANGED <<fname, fin, fchar>>
    /\ UNCHANGED mainVars

InitAlt == FunInit("escape_alternates", AltAlphabet, {""})

NextAlt == ApplyEscapeAlternates

SpecAlt == InitAlt /\ [][NextAlt]_vars

WordedAlphabet == {BS, "<", ">", "a"}

\* worded, applied to the input and then to its own result
ApplyWorded ==
    /\ fname = "worded"
    /\ Len(fout) < 2
    /\ fout' = Append(fout, worded(FunArg))
    /\ UNCHANGED <<fname, fin, fchar>>
    /\ UNCHANGED mainVars

InitWorded == FunInit("worded", WordedAlphabet, {""})

NextWorded == ApplyWorded

SpecWorded == InitWorded /\ [][NextWorded]_vars

RemoveAlphabet == {"-", "x", "y", SP}

ApplyRemoveOption ==
    /\ fname = "remove_option"
    /\ fout = <<>>
    /\ fout' = <<remove_option(fin, fchar)>>
    /\ UNCHANGED <<fname, fin, fchar>>
    /\ UNCHANGED mainVars

InitRemove == FunInit("remove_option", RemoveAlphabet, {"x", "y"})

NextRemove == ApplyRemoveOption

SpecRemove == InitRemove /\ [][NextRemove]_vars

(***************************************************************************)
(* main as one function of its argument and of the collaborator's answer: *)
(* what the steps above compute together (lines 197 to 206).               *)
(***************************************************************************)
main(raw, status, output) ==
    LET p == parse_command_line(raw)
        c == ack_command(p.args)
        r == run_ack(status, output)
        v == as_vim_args(p.args)
        u == use_files(p.run_vim, v.val, r.paths)
        raised(e) == [exc |-> e, stdout |-> <<>>, stderr |-> <<>>, ret |-> 0]
    IN IF p.exc # "none" THEN raised(p.exc)
       ELSE IF c.exc # "none" THEN raised(c.exc)
       ELSE IF r.exc = "ShellError"
            THEN [exc |-> "none", stdout |-> <<>>,
                  stderr |-> Printed(output), ret |-> status]
       ELSE IF v.exc # "none" THEN raised(v.exc)
       ELSE [exc |-> u.exc, stdout |-> u.out, stderr |-> <<>>,
             ret |-> IF u.exc # "none" THEN 0 ELSE u.ret]

Outcome == [exc |-> exc, stdout |-> stdout, stderr |-> stderr, ret |-> ret]

\* the steps and the function agree on every finished run
StepsAreMain == pc = "Done" => Outcome = main(rawArgs, ackStatus, ackOutput)

(***************************************************************************)
(* Vocabulary of the properties.                                           *)
(***************************************************************************)
\* the search collaborator has been run, and has answered
AckRan == command # <<>>

\* parse_command_line has returned
Parsed == pc # "ParseCommandLine" /\ exc # "IndexError"

\* the run has returned a status
Returned == pc = "Done" /\ exc = "none"

HasToken(as, t) == \E i \in 1..Len(as) : as[i] = t
Without(as, t) == SelectSeq(as, LAMBDA a : a # t)
BothQuotes(t) == DQ \in Chars(t) /\ SQ \in Chars(t)

\* the editor commands on standard output: its lines that are not blank
Commands(out) == SelectSeq(splitlines(out), LAMBDA l : l # <<>>)

\* a path in the quotes the shell needs
InQuotes(p) == IF DQ \in Chars(p) THEN <<SQ>> \o p \o <<SQ>> ELSE <<DQ>> \o p \o <<DQ>>

MvimOf(what, pattern) == <<"m","v","i","m",SP>> \o what \o <<SP,"+","/">> \o pattern

RECURSIVE SpacedQuoted(_)
SpacedQuoted(ps) ==
    IF ps = <<>> THEN <<>>
    ELSE <<SP>> \o InQuotes(ps[1]) \o SpacedQuoted(Tail(ps))

TokV == <<"-","V">>
Tokv == <<"-","v">>

(***************************************************************************)
(* C1: whenever the search collaborator answers with a status s that is   *)
(* not 0, main goes to its handler only and ends there: it never          *)
(* translates, builds or emits, nothing is written to standard output,    *)
(* the collaborator's output is written to the error stream, and main     *)
(* returns s.                                                              *)
(***************************************************************************)
C1_ShellFailureShortCircuits ==
    (AckRan /\ ackStatus # 0) =>
        /\ pc \in {"ShellError", "Done"}
        /\ stdout = <<>>
        /\ vim_args = <<>>
        /\ exc = "none"
        /\ pc = "Done" => (stderr = ackOutput \o <<NL>> /\ ret = ackStatus)

C1_Witness ==
    /\ pc = "Done" /\ AckRan /\ ackStatus = 2
    /\ stderr = ErrorOutput \o <<NL>> /\ ret = 2 /\ stdout = <<>>

(***************************************************************************)
(* C2: when the paths can all be quoted, use_files with run_vim true      *)
(* writes exactly one command, which names every path in order, and       *)
(* returns 0; with run_vim false it writes exactly one command per path,  *)
(* in the order of the paths, and returns EX_TEMPFAIL, which is not 0.    *)
(***************************************************************************)
C2_EmissionModes ==
    (Returned /\ AckRan /\ ackStatus = 0) =>
        LET lines == splitlines(stdout)
            cmds == SelectSeq(lines, LAMBDA l : l # <<>>)
        IN IF run_vim
           THEN /\ lines = << MvimOf(<<"-","p">> \o SpacedQuoted(paths), vim_args) >>
                /\ ret = 0
           ELSE /\ Len(cmds) = Len(paths)
                /\ \A i \in 1..Len(paths) :
                      cmds[i] = MvimOf(InQuotes(paths[i]), vim_args)
                /\ cmds # lines => (paths = <<>> /\ lines = << <<>> >>)
                /\ ret = 75
                /\ ret # 0

C2_Witness ==
    /\ Returned /\ ~run_vim /\ Len(paths) = 2 /\ paths[1] # paths[2]
    /\ Len(Commands(stdout)) = 2 /\ ret = 75

(***************************************************************************)
(* C3 as the specification states it: -v is the verbose flag, without     *)
(* effect (a list with -v and without -V gives run_vim false and the      *)
(* outcome of the list without -v), and -V is the run flag (a list with   *)
(* -V gives run_vim true).                                                 *)
(***************************************************************************)
C3_AsStated ==
    Parsed =>
        /\ (HasToken(rawArgs, Tokv) /\ ~HasToken(rawArgs, TokV)) =>
              /\ run_vim = FALSE
              /\ args = parse_command_line(Without(rawArgs, Tokv)).args
        /\ HasToken(rawArgs, TokV) => run_vim = TRUE

(***************************************************************************)
(* C3, amended: -V is the verbose flag and has no effect: a list with -V  *)
(* gives the arguments, the run_vim and the outcome (output, error        *)
(* output, status, exception) of the list with every -V removed; -v is    *)
(* the run flag: a list with -v gives run_vim true and, when the search   *)
(* succeeds and every token can be quoted, the one combined command and   *)
(* the status 0.                                                           *)
(***************************************************************************)
C3_FlagsAmended ==
    /\ (Parsed /\ HasToken(rawArgs, TokV)) =>
          LET o == parse_command_line(Without(rawArgs, TokV))
          IN /\ o.exc = "none"
             /\ args = o.args
             /\ run_vim = o.run_vim
             /\ pc = "Done" =>
                   Outcome = main(Without(rawArgs, TokV), ackStatus, ackOutput)
    /\ (Parsed /\ HasToken(rawArgs, Tokv)) =>
          /\ run_vim = TRUE
          /\ (Returned /\ ackStatus = 0) =>
                /\ ret = 0
                /\ Len(splitlines(stdout)) = 1
                /\ At(stdout, 1, <<"m","v","i","m",SP,"-","p">>)

C3_Witness ==
    /\ Returned /\ AckRan /\ ackStatus = 0
    /\ HasToken(rawArgs, TokV) /\ ~HasToken(rawArgs, Tokv)
    /\ args # <<>> /\ ~run_vim /\ ret = 75 /\ paths # <<>>

(***************************************************************************)
(* C4 as the specification states it: when the search succeeds with no    *)
(* matched path, the run returns a status and writes no editor command,   *)
(* with and without the run flag.                                          *)
(***************************************************************************)
C4_NoMatchesNoCommand ==
    (pc = "Done" /\ AckRan /\ ackStatus = 0 /\ paths = <<>>) =>
        /\ exc = "none"
        /\ stderr = <<>>
        /\ Commands(stdout) = <<>>

(***************************************************************************)
(* C5: a token that cannot be quoted aborts the run with nothing written: *)
(* standard output is written only by a run that returns; a pattern with  *)
(* both quote characters ends the run in a ValueError before the search   *)
(* is run; after a successful search, a path with both quote characters,  *)
(* wherever it stands, ends the run in a ValueError; main catches         *)
(* neither.                                                                *)
(***************************************************************************)
C5_QuotingFailureAborts ==
    /\ stdout # <<>> => Returned
    /\ exc = "ValueError" => (pc = "Done" /\ stdout = <<>> /\ stderr = <<>>)
    /\ (pc = "Done" /\ Parsed
          /\ \E i \in 1..Len(args) : ~IsOption(args[i]) /\ BothQuotes(args[i])) =>
          (exc = "ValueError" /\ ~AckRan)
    /\ (pc = "Done" /\ AckRan /\ ackStatus = 0
          /\ \E i \in 1..Len(paths) : BothQuotes(paths[i])) =>
          exc = "ValueError"

C5_Witness ==
    /\ pc = "Done" /\ exc = "ValueError" /\ AckRan /\ ~run_vim
    /\ Len(paths) = 2 /\ ~BothQuotes(paths[1]) /\ BothQuotes(paths[2])
    /\ stdout = <<>>

(***************************************************************************)
(* C6 as the specification states it: for a token "-" followed by         *)
(* lowercase letters s and a character c of s, remove_option returns c    *)
(* and "-" followed by s without any c, or the empty string when nothing  *)
(* of s remains.                                                           *)
(***************************************************************************)
IsBundle(t) == Len(t) >= 2 /\ t[1] = "-" /\ \A i \in 2..Len(t) : t[i] \in Lower

C6_RemoveFlag ==
    (fname = "remove_option" /\ fout # <<>> /\ IsBundle(fin)
        /\ fchar \in Chars(Tail(fin))) =>
        LET rest == SelectSeq(Tail(fin), LAMBDA c : c # fchar)
        IN fout[1] = [string |-> IF rest = <<>> THEN <<>> ELSE <<"-">> \o rest,
                      char |-> fchar]

(***************************************************************************)
(* C7 as the specification states it: a token that starts with \b has it  *)
(* replaced by \<, a token that ends with \b has it replaced by \>, and a *)
(* token without \b is returned as it is.                                  *)
(***************************************************************************)
EndsWith(s, t) == At(s, Len(s) - Len(t) + 1, t)

C7_AsStated ==
    (fname = "bs_to_brackets" /\ fout # <<>>) =>
        /\ At(fin, 1, Boundary) => At(fout[1], 1, StartMarker)
        /\ EndsWith(fin, Boundary) => EndsWith(fout[1], EndMarker)
        /\ ~Contains(fin, Boundary) => fout[1] = fin

(***************************************************************************)
(* C7, amended: a token that starts with \b has that \b replaced by \<    *)
(* (the result starts with \<, and is \< and the rest when the rest holds *)
(* no \b); a token that ends with \b after a word character has that \b   *)
(* replaced by \> (the result ends with \>, and is the rest and \> when   *)
(* the rest holds no \b); a token without \b is returned as it is.        *)
(***************************************************************************)
C7_BoundariesAmended ==
    (fname = "bs_to_brackets" /\ fout # <<>>) =>
        /\ At(fin, 1, Boundary) =>
              /\ At(fout[1], 1, StartMarker)
              /\ ~Contains(Slice(fin, 3, Len(fin)), Boundary) =>
                    fout[1] = StartMarker \o Slice(fin, 3, Len(fin))
        /\ (EndsWith(fin, Boundary) /\ Len(fin) >= 3 /\ IsWord(fin[Len(fin) - 2])) =>
              /\ EndsWith(fout[1], EndMarker)
              /\ ~Contains(Slice(fin, 1, Len(fin) - 2), Boundary) =>
                    fout[1] = Slice(fin, 1, Len(fin) - 2) \o EndMarker
        /\ ~Contains(fin, Boundary) => fout[1] = fin

C7_Witness ==
    /\ fname = "bs_to_brackets"
    /\ fin = <<BS,"b","a",BS,"b">>
    /\ fout = << <<BS,"<","a",BS,">">> >>

(***************************************************************************)
(* C8 as the specification states it: a pattern that is exactly one group *)
(* in parentheses is returned with \( and \) around it and every | as \|; *)
(* any other pattern, such as (a|b)c, is returned as it is.               *)
(***************************************************************************)
\* the shape, read as widely as it can be: "(" first, ")" last, no text around
ExactGroup(s) == Len(s) >= 2 /\ s[1] = "(" /\ s[Len(s)] = ")"

C8_EscapeAlternation ==
    (fname = "escape_alternates" /\ fout # <<>>) =>
        IF ExactGroup(fin)
        THEN fout[1] = <<BS,"(">>
                       \o Replace(Slice(fin, 2, Len(fin) - 1), "|", <<BS,"|">>)
                       \o <<BS,")">>
        ELSE fout[1] = fin

(***************************************************************************)
(* C9: worded is idempotent: applied to its own result it returns that    *)
(* result, for every string, the empty one and the markers included; and  *)
(* its result starts with \< and ends with \>.                             *)
(***************************************************************************)
C9_WordedIdempotent ==
    fname = "worded" =>
        /\ Len(fout) >= 1 =>
              (At(fout[1], 1, StartMarker) /\ EndsWith(fout[1], EndMarker))
        /\ Len(fout) = 2 => fout[2] = fout[1]

C9_Witness ==
    /\ fname = "worded" /\ fin = <<>> /\ Len(fout) = 2
    /\ fout[2] = <<BS,"<",BS,">">>

(***************************************************************************)
(* C10 as the specification states it: parse_command_line changes option  *)
(* tokens only: the raw tokens that neither start with "-" nor end with   *)
(* "/" are, in their order, the tokens of the result that are no options, *)
(* and run_vim is true only if a token that starts with "-" carried v.    *)
(***************************************************************************)
C10_OnlyOptionsTouched ==
    Parsed =>
        /\ SelectSeq(args, LAMBDA a : ~IsOption(a))
              = SelectSeq(rawArgs, LAMBDA a : ~IsOption(a) /\ a[Len(a)] # "/")
        /\ run_vim =>
              \E i \in 1..Len(rawArgs) :
                  IsOption(rawArgs[i]) /\ "v" \in Chars(rawArgs[i])

====
